---- MODULE Spec2Model ----
(***************************************************************************)
(* Hard-fault demonstration and fault handlers of                          *)
(* Ch09_Debugging/hardfaults.c (Cortex-M4, STM32L4).                       *)
(*                                                                         *)
(* The state is what the C file reads and writes: the unaligned-trap bit   *)
(* of SCB->CCR, the fault status / fault address registers, the two stack  *)
(* pointers and the exception frame the hardware stacked, the pointer the  *)
(* assembly trampoline hands to the C handler, the locals of               *)
(* hard_fault_handler_c, and the coreDump structure in section .CoreDump.  *)
(* Words are kept as naturals; EXC_RETURN is kept as its low byte (its     *)
(* upper 24 bits are all ones and no instruction of the file reads them).  *)
(***************************************************************************)
EXTENDS Integers, Sequences, FiniteSets, TLC

\* ------------------------------------------------------------------ bounds
\* Number of distinct exception frames the hardware may stack.
MaxSeed == 2
\* Largest word found in memory that nobody has written yet (0..MaxGarbage).
MaxGarbage == 2

\* ------------------------------------------------------- program constants
\* #define COREDUMP_KEY 0xE0C2024
COREDUMP_KEY == 235675684
\* "movs r0,#4" / "tst lr, #4": the EXC_RETURN stack-selection mask
SPSEL_MASK == 4
\* sizeof(sContextStateFrame): eight packed uint32_t
FrameBytes == 32
\* value of a volatile local of hard_fault_handler_c before its assignment
Unset == -1

\* Fault categories of the error taxonomy, as stored in coreDump.cause.
AlignmentFault == 1
AccessFault == 2
UndefinedInstructionFault == 3
ProtectionFault == 4
EscalatedFault == 5

\* ----------------------------------------------------------------- helpers
Pow2(k) == 2 ^ k

\* bit k of word n
Bit(n, k) == (n \div Pow2(k)) % 2

\* n & mask, for a one-bit mask
AndMask(n, mask) == IF (n \div mask) % 2 = 1 THEN mask ELSE 0

\* ------------------------------------------------- exception context capture
\* The stack pointers right after reset (vector table / startup values).
StackTops == [main |-> 536875008, process |-> 536879104]

\* EXC_RETURN[7:0] the hardware puts in lr at exception entry:
\* 0xF1 handler mode (main stack), 0xF9 thread mode on the main stack,
\* 0xFD thread mode on the process stack.
ExcReturns == {241, 249, 253}

\* NEW_HANLDER_1: movs r0,#4 ; movs r1,lr ; tst r0,r1 ; beq _MSP ;
\* mrs r0,psp ; b _HALT ; _MSP: mrs r0,msp
HardFault_Handler_1(lr, msp, psp) ==
  LET r0 == SPSEL_MASK
      r1 == lr
      z  == AndMask(r1, r0) = 0
  IN  IF z THEN msp ELSE psp

\* NEW_HANDLER_MEMFAULT, mutated: the two conditional moves exchanged.
HARDFAULT_HANDLING_ASM_Swapped(lr, msp, psp) ==
  LET z == AndMask(lr, SPSEL_MASK) = 0
  IN  IF z THEN psp ELSE msp

\* NEW_HANDLER_MEMFAULT: tst lr,#4 ; ite eq ; mrseq r0,msp ; mrsne r0,psp
HARDFAULT_HANDLING_ASM(lr, msp, psp) ==
  LET z == AndMask(lr, SPSEL_MASK) = 0
  IN  IF z THEN msp ELSE psp

\* The eight words the hardware stacks (typedef sContextStateFrame); every
\* field of frame number s holds a different word.
Frame(s) ==
  [r0 |-> 100 * s, r1 |-> 100 * s + 1, r2 |-> 100 * s + 2, r3 |-> 100 * s + 3,
   r12 |-> 100 * s + 4, lr |-> 100 * s + 5, return_address |-> 100 * s + 6,
   xpsr |-> 100 * s + 7]

\* What lies at the top of the stack that was not in use: older words.
StaleFrame == Frame(0)

\* ------------------------------------------------------ fault status values
\* Values of CFSR / HFSR / MMAR / BFAR the hardware presents for the
\* demonstration at the given line of do_some_hardfaults. No fault enable of
\* SHCSR is set by the file, so every fault is escalated (HFSR.FORCED,
\* bit 30). An address register whose valid bit is clear keeps an older
\* address.
FORCED == Pow2(30)

StatusesOf(line) ==
  CASE line = 137 ->      \* divide_by_zero: UFSR.DIVBYZERO
         {[cfsr |-> Pow2(25), hfsr |-> FORCED, mmar |-> 536871168, bfar |-> 536871168]}
    [] line = 138 ->      \* write_to_null
         {[cfsr |-> 2 + 128, hfsr |-> FORCED, mmar |-> 0, bfar |-> 536871168],
          [cfsr |-> 2, hfsr |-> FORCED, mmar |-> 536871168, bfar |-> 536871168],
          [cfsr |-> 512 + 32768, hfsr |-> FORCED, mmar |-> 536871168, bfar |-> 0],
          [cfsr |-> 2 + 128 + 1024, hfsr |-> FORCED, mmar |-> 0, bfar |-> 536871168]}
    [] line = 140 ->      \* illegal_instruction_execution: UNDEFINSTR
         {[cfsr |-> Pow2(16), hfsr |-> FORCED, mmar |-> 536871168, bfar |-> 536871168]}
    [] line = 142 ->      \* call_null_pointer_function: INVSTATE
         {[cfsr |-> Pow2(17), hfsr |-> FORCED, mmar |-> 536871168, bfar |-> 536871168]}
    [] OTHER ->           \* unaligned_access_bad: UFSR.UNALIGNED
         {[cfsr |-> Pow2(24), hfsr |-> FORCED, mmar |-> 536871168, bfar |-> 536871168]}

\* --------------------------------------------------------- unaligned access
\* Possible placements (address mod 4) of "uint8_t buffer[6]" on the stack:
\* a uint8_t array has no alignment requirement.
BufferAlignments == 0 .. 3

\* A 32-bit load traps when CCR.UNALIGN_TRP is set and the address is not a
\* multiple of four.
LoadTraps(trp, addr) == trp /\ addr % 4 # 0

\* ------------------------------------------------------------ core dump
\* Contents of the .CoreDump region that no handler has written: first
\* boot, power loss, corruption. The key may hold anything, the known
\* constant included.
GarbageRegions ==
  { [key |-> k, cause |-> c, r0 |-> g, r1 |-> g, r2 |-> g, r3 |-> g,
     returnAddress |-> g, stackPointer |-> g, lastBattReading |-> g] :
       k \in {0, COREDUMP_KEY, COREDUMP_KEY + 1},
       c \in 0 .. MaxGarbage, g \in 0 .. MaxGarbage }

\* my_fault_handler_c with the assignment of the key left out.
WriteCoreDump_NoKey(cd, frame) ==
  [cd EXCEPT !.r0 = frame.r0,
             !.r1 = frame.r1,
             !.r2 = frame.r2,
             !.r3 = frame.r3,
             !.returnAddress = frame.return_address,
             !.stackPointer = frame.xpsr,
             !.lastBattReading = 0]

\* my_fault_handler_c, lines 301-308: the assignments to coreDump. The
\* cause field is not assigned.
WriteCoreDump(cd, frame) ==
  [cd EXCEPT !.key = COREDUMP_KEY,
             !.r0 = frame.r0,
             !.r1 = frame.r1,
             !.r2 = frame.r2,
             !.r3 = frame.r3,
             !.returnAddress = frame.return_address,
             !.stackPointer = frame.xpsr,
             !.lastBattReading = 0]

ZeroRegion ==
  [key |-> 0, cause |-> 0, r0 |-> 0, r1 |-> 0, r2 |-> 0, r3 |-> 0,
   returnAddress |-> 0, stackPointer |-> 0, lastBattReading |-> 0]

Absent == [present |-> FALSE, rec |-> ZeroRegion]

\* read() that trusts the region whatever its key.
Read_NoKeyCheck(cd) == [present |-> TRUE, rec |-> cd]

\* CoreDumpStore.read(): the key is validated first; absent when it does
\* not match, the full record otherwise.
Read(cd) ==
  IF cd.key = COREDUMP_KEY THEN [present |-> TRUE, rec |-> cd] ELSE Absent

\* ------------------------------------------------------ fault status decoder
\* The classification the design asks of the decoder: memory-protection >
\* bus > usage > escalated/unknown. MMFSR is CFSR[7:0] (bit 7 is MMARVALID),
\* BFSR is CFSR[15:8] (bit 15 is BFARVALID), UFSR is CFSR[31:16].
Classify(cfsr) ==
  LET mmfsr == cfsr % 128
      bfsr  == (cfsr \div 256) % 128
      ufsr  == cfsr \div 65536
  IN  IF mmfsr # 0 THEN ProtectionFault
      ELSE IF bfsr # 0 THEN AccessFault
      ELSE IF Bit(ufsr, 8) = 1 THEN AlignmentFault
      ELSE IF ufsr # 0 THEN UndefinedInstructionFault
      ELSE EscalatedFault

\* ------------------------------------------------------------------- state
VARIABLES
  variant,     \* which handler the build defines: NEW_HANLDER_1 or NEW_HANDLER_MEMFAULT
  debugger,    \* a debugger is attached
  mode,        \* where the processor is
  pc,          \* line of do_some_hardfaults about to execute
  unalignTrp,  \* SCB->CCR bit 3
  scb,         \* CFSR, HFSR, DFSR, AFSR, MMAR, BFAR
  msp, psp,    \* main and process stack pointers
  excLr,       \* lr at exception entry (EXC_RETURN[7:0])
  stackAt,     \* the eight words found at each stack pointer
  framePtr,    \* r0 as the trampoline leaves it: the C handler's argument
  hf,          \* the volatile locals of hard_fault_handler_c
  coreDump,    \* struct sCoreDump coreDump, section .CoreDump
  report,      \* what the boot-time read of the region returned
  frameAddr,   \* history: address at which the hardware stacked the frame
  regReads,    \* history: registers the C handler has read for this fault
  stages,      \* history: stages this fault went through
  writes,      \* history: writes of the core-dump record for this fault
  decision,    \* history: terminal action taken for this fault
  persisted    \* history: the record as the last handler run left it

vars ==
  <<variant, debugger, mode, pc, unalignTrp, scb, msp, psp, excLr, stackAt,
    framePtr, hf, coreDump, report, frameAddr, regReads, stages, writes,
    decision, persisted>>

Variants == {"NEW_HANLDER_1", "NEW_HANDLER_MEMFAULT"}

NoStatus == [CFSR |-> 0, HFSR |-> 0, DFSR |-> 0, AFSR |-> 0, MMAR |-> 0, BFAR |-> 0]

UnsetLocals ==
  [stacked_r0 |-> Unset, stacked_r1 |-> Unset, stacked_r2 |-> Unset,
   stacked_r3 |-> Unset, stacked_r12 |-> Unset, stacked_lr |-> Unset,
   stacked_pc |-> Unset, stacked_psr |-> Unset, _CFSR |-> Unset,
   _HFSR |-> Unset, _DFSR |-> Unset, _AFSR |-> Unset, _BFAR |-> Unset,
   _MMAR |-> Unset]

NothingPersisted == [valid |-> FALSE, rec |-> ZeroRegion, r0 |-> 0]

\* The processor out of exception context: nothing stacked, no handler
\* locals alive.
NoException ==
  /\ excLr' = 0
  /\ stackAt' = [a \in {msp', psp'} |-> StaleFrame]
  /\ framePtr' = 0
  /\ hf' = UnsetLocals
  /\ frameAddr' = 0
  /\ regReads' = {}
  /\ stages' = << >>
  /\ writes' = 0
  /\ decision' = "None"

\* State after construction: power applied, nothing run yet. The region is
\* in a section the startup code does not initialise, so it holds anything.
Init ==
  /\ variant \in Variants
  /\ debugger \in BOOLEAN
  /\ mode = "Boot"
  /\ pc = 0
  /\ unalignTrp = FALSE
  /\ scb = NoStatus
  /\ msp = StackTops.main
  /\ psp = StackTops.process
  /\ excLr = 0
  /\ stackAt = [a \in {StackTops.main, StackTops.process} |-> StaleFrame]
  /\ framePtr = 0
  /\ hf = UnsetLocals
  /\ coreDump \in GarbageRegions
  /\ report = Absent
  /\ frameAddr = 0
  /\ regReads = {}
  /\ stages = << >>
  /\ writes = 0
  /\ decision = "None"
  /\ persisted = NothingPersisted

\* ------------------------------------------------------------ boot and reset
\* Reset vector to main: SCB and the stack pointers take their reset
\* values; the .CoreDump section is neither zeroed nor copied.
Restart ==
  /\ mode' = "Boot"
  /\ pc' = 0
  /\ debugger' \in BOOLEAN
  /\ unalignTrp' = FALSE
  /\ scb' = NoStatus
  /\ msp' = StackTops.main
  /\ psp' = StackTops.process
  /\ report' = Absent
  /\ NoException
  /\ UNCHANGED variant

\* System reset without power loss (reset pin, watchdog, debugger).
Reset ==
  /\ mode # "Boot"
  /\ Restart
  /\ UNCHANGED <<coreDump, persisted>>

\* Power is removed and applied again: RAM comes back with any content.
PowerCycle ==
  /\ mode # "Boot"
  /\ Restart
  /\ coreDump' \in GarbageRegions
  /\ persisted' = NothingPersisted

\* Boot-time diagnostics read the region.
BootDiagnostics ==
  /\ mode = "Boot"
  /\ report' = Read(coreDump)
  /\ mode' = "Booted"
  /\ UNCHANGED <<variant, debugger, pc, unalignTrp, scb, msp, psp, excLr,
                 stackAt, framePtr, hf, coreDump, frameAddr, regReads,
                 stages, writes, decision, persisted>>

\* The application calls do_some_hardfaults.
Main ==
  /\ mode = "Booted"
  /\ mode' = "Thread"
  /\ pc' = 137
  /\ UNCHANGED <<variant, debugger, unalignTrp, scb, msp, psp, excLr,
                 stackAt, framePtr, hf, coreDump, report, frameAddr,
                 regReads, stages, writes, decision, persisted>>

\* ------------------------------------------------------- do_some_hardfaults
NextLine(line) ==
  CASE line = 137 -> 138
    [] line = 138 -> 140
    [] line = 140 -> 142
    [] line = 142 -> 145
    [] line = 145 -> 146
    [] line = 146 -> 147
    [] line = 147 -> 148
    [] line = 148 -> 149
    [] line = 149 -> 150
    [] OTHER -> 153

\* Exception entry: the hardware stacks the frame on the stack in use, sets
\* lr to EXC_RETURN (bit 2 set when the process stack was in use) and the
\* status registers, and enters HardFault_Handler.
Trap(st, s, lr) ==
  LET onMain == Bit(lr, 2) = 0
      sp     == IF onMain THEN msp - FrameBytes ELSE psp - FrameBytes
  IN  /\ msp' = IF onMain THEN sp ELSE msp
      /\ psp' = IF onMain THEN psp ELSE sp
      /\ stackAt' = [a \in {msp', psp'} |-> IF a = sp THEN Frame(s) ELSE StaleFrame]
      /\ frameAddr' = sp
      /\ excLr' = lr
      /\ scb' = [NoStatus EXCEPT !.CFSR = st.cfsr, !.HFSR = st.hfsr,
                                 !.MMAR = st.mmar, !.BFAR = st.bfar]
      /\ mode' = "Trapped"
      /\ framePtr' = 0
      /\ hf' = UnsetLocals
      /\ regReads' = {}
      /\ stages' = <<"Trapped">>
      /\ writes' = 0
      /\ decision' = "None"
      /\ UNCHANGED <<variant, debugger, pc, unalignTrp, coreDump, report, persisted>>

Completes ==
  /\ pc' = NextLine(pc)
  /\ UNCHANGED <<variant, debugger, mode, unalignTrp, scb, msp, psp, excLr,
                 stackAt, framePtr, hf, coreDump, report, frameAddr,
                 regReads, stages, writes, decision, persisted>>

\* divide_by_zero, write_to_null, illegal_instruction_execution,
\* call_null_pointer_function: each has undefined behaviour; the call
\* either raises a fault or runs through.
Generator ==
  /\ mode = "Thread"
  /\ pc \in {137, 138, 140, 142}
  /\ \E faults \in BOOLEAN :
       IF faults
       THEN \E st \in StatusesOf(pc), s \in 1 .. MaxSeed, lr \in ExcReturns :
              Trap(st, s, lr)
       ELSE Completes

\* unaligned_access_ok: the 32-bit load is from &bigVariable, a uint32_t.
unaligned_access_ok ==
  /\ mode = "Thread"
  /\ pc \in {146, 148}
  /\ IF LoadTraps(unalignTrp, 0)
     THEN \E st \in StatusesOf(pc), s \in 1 .. MaxSeed, lr \in ExcReturns :
            Trap(st, s, lr)
     ELSE Completes

\* SCB->CCR |= (1<<3)
SetUnalignTrp ==
  /\ mode = "Thread"
  /\ pc = 147
  /\ unalignTrp' = TRUE
  /\ pc' = NextLine(pc)
  /\ UNCHANGED <<variant, debugger, mode, scb, msp, psp, excLr, stackAt,
                 framePtr, hf, coreDump, report, frameAddr, regReads,
                 stages, writes, decision, persisted>>

\* The argument of the call at each line.
IndexAt(line) == IF line = 149 THEN 0 ELSE 1

\* unaligned_access_bad(index): uint8_t i = index; the 32-bit load is from
\* &buffer[i].
unaligned_access_bad ==
  /\ mode = "Thread"
  /\ pc \in {145, 149, 150}
  /\ \E base \in BufferAlignments :
       LET i == IndexAt(pc) % 256
       IN  IF LoadTraps(unalignTrp, base + i)
           THEN \E st \in StatusesOf(pc), s \in 1 .. MaxSeed, lr \in ExcReturns :
                  Trap(st, s, lr)
           ELSE Completes

\* do_some_hardfaults returns to its caller.
ReturnFromDemo ==
  /\ mode = "Thread"
  /\ pc = 153
  /\ mode' = "Idle"
  /\ UNCHANGED <<variant, debugger, pc, unalignTrp, scb, msp, psp, excLr,
                 stackAt, framePtr, hf, coreDump, report, frameAddr,
                 regReads, stages, writes, decision, persisted>>

\* ------------------------------------------------------------ fault handlers
\* HardFault_Handler: the assembly trampoline of the variant built. It
\* leaves the selected stack pointer in r0 and branches to the C handler.
\* (NEW_HANLDER_1 also loads [r0,#20] into r1, which the C handler ignores.)
HardFault_Handler ==
  /\ mode = "Trapped"
  /\ framePtr' = IF variant = "NEW_HANLDER_1"
                 THEN HardFault_Handler_1(excLr, msp, psp)
                 ELSE HARDFAULT_HANDLING_ASM(excLr, msp, psp)
  /\ mode' = "Captured"
  /\ stages' = Append(stages, "Captured")
  /\ UNCHANGED <<variant, debugger, pc, unalignTrp, scb, msp, psp, excLr,
                 stackAt, hf, coreDump, report, frameAddr, regReads, writes,
                 decision, persisted>>

\* hard_fault_handler_c, lines 209-242: copies the eight stacked words and
\* the six status and address registers into locals, MMAR and BFAR
\* whatever the valid bits say; then it stands at its BKPT.
hard_fault_handler_c ==
  /\ mode = "Captured"
  /\ variant = "NEW_HANLDER_1"
  /\ LET hardfault_args == stackAt[framePtr]
     IN  hf' = [stacked_r0  |-> hardfault_args.r0,
                stacked_r1  |-> hardfault_args.r1,
                stacked_r2  |-> hardfault_args.r2,
                stacked_r3  |-> hardfault_args.r3,
                stacked_r12 |-> hardfault_args.r12,
                stacked_lr  |-> hardfault_args.lr,
                stacked_pc  |-> hardfault_args.return_address,
                stacked_psr |-> hardfault_args.xpsr,
                _CFSR |-> scb.CFSR,
                _HFSR |-> scb.HFSR,
                _DFSR |-> scb.DFSR,
                _AFSR |-> scb.AFSR,
                _BFAR |-> scb.BFAR,
                _MMAR |-> scb.MMAR]
  /\ regReads' = {"CFSR", "HFSR", "DFSR", "AFSR", "MMAR", "BFAR"}
  /\ mode' = "AtBkpt"
  /\ stages' = Append(stages, "StatusRead")
  /\ UNCHANGED <<variant, debugger, pc, unalignTrp, scb, msp, psp, excLr,
                 stackAt, framePtr, coreDump, report, frameAddr, writes,
                 decision, persisted>>

\* my_fault_handler_c, lines 301-308: fills coreDump from the frame it was
\* handed; it reads no status register. Then it stands at its BKPT.
my_fault_handler_c ==
  /\ mode = "Captured"
  /\ variant = "NEW_HANDLER_MEMFAULT"
  /\ coreDump' = WriteCoreDump(coreDump, stackAt[framePtr])
  /\ writes' = writes + 1
  /\ persisted' = [valid |-> TRUE, rec |-> coreDump', r0 |-> stackAt[frameAddr].r0]
  /\ mode' = "AtBkpt"
  /\ stages' = Append(stages, "Persisted")
  /\ UNCHANGED <<variant, debugger, pc, unalignTrp, scb, msp, psp, excLr,
                 stackAt, framePtr, hf, report, frameAddr, regReads, decision>>

\* __asm("BKPT #0"), executed whether or not a debugger is attached. With
\* a debugger the core halts. Without one the breakpoint cannot be taken
\* inside the HardFault handler and the core locks up.
Bkpt ==
  /\ mode = "AtBkpt"
  /\ mode' = IF debugger THEN "Halted" ELSE "Lockup"
  /\ decision' = IF debugger THEN "Halt" ELSE "Lockup"
  /\ stages' = Append(stages, mode')
  /\ UNCHANGED <<variant, debugger, pc, unalignTrp, scb, msp, psp, excLr,
                 stackAt, framePtr, hf, coreDump, report, frameAddr,
                 regReads, writes, persisted>>

\* The operator resumes from the breakpoint: the C handler runs off its
\* end and returns with lr = EXC_RETURN, the frame is unstacked and the
\* faulting call is executed again.
DebuggerResume ==
  /\ mode = "Halted"
  /\ mode' = "Thread"
  /\ msp' = IF frameAddr = msp THEN msp + FrameBytes ELSE msp
  /\ psp' = IF frameAddr = msp THEN psp ELSE psp + FrameBytes
  /\ NoException
  /\ UNCHANGED <<variant, debugger, pc, unalignTrp, scb, coreDump, report,
                 persisted>>

Next ==
  \/ BootDiagnostics
  \/ Main
  \/ Generator
  \/ unaligned_access_ok
  \/ SetUnalignTrp
  \/ unaligned_access_bad
  \/ ReturnFromDemo
  \/ HardFault_Handler
  \/ hard_fault_handler_c
  \/ my_fault_handler_c
  \/ Bkpt
  \/ DebuggerResume
  \/ Reset
  \/ PowerCycle

Spec == Init /\ [][Next]_vars

\* ================================================================== claims
\* The C handler of the fault being handled has run up to its BKPT.
HandlerRan == mode \in {"AtBkpt", "Halted", "Lockup"}

\* The frame the hardware stacked for the fault being handled.
FaultFrame == stackAt[frameAddr]

\* The record this fault is to leave in the region: the key, the decoder's
\* category, r0-r3 and the return address of the stacked frame, the stack
\* pointer at fault time (the frame's address plus its size) and the
\* auxiliary field (0, as the handler has no variable to take it from).
FaultRecord ==
  [key |-> COREDUMP_KEY,
   cause |-> Classify(scb.CFSR),
   r0 |-> FaultFrame.r0,
   r1 |-> FaultFrame.r1,
   r2 |-> FaultFrame.r2,
   r3 |-> FaultFrame.r3,
   returnAddress |-> FaultFrame.return_address,
   stackPointer |-> frameAddr + FrameBytes,
   lastBattReading |-> 0]

\* C1: round trip. Once the handler has written the record of a fault,
\* reading the region back (nothing having cleared it) yields a record
\* equal in every field to the record that was to be written.
C1_RoundTrip ==
  (HandlerRan /\ variant = "NEW_HANDLER_MEMFAULT")
    => Read(coreDump) = [present |-> TRUE, rec |-> FaultRecord]

\* C2: the boot-time read returns absent whenever the key of the region
\* differs from COREDUMP_KEY, whatever the other fields hold, and returns
\* a record (the region's content) only when the key matches.
C2_AbsentUnlessKey ==
  mode = "Booted"
    => /\ (coreDump.key # COREDUMP_KEY => report = Absent)
       /\ (report.present => (coreDump.key = COREDUMP_KEY /\ report.rec = coreDump))

\* C2 witness: a boot whose region has a wrong key and non-zero content in
\* the other fields, read as absent.
C2_Witness ==
  /\ mode = "Booted"
  /\ coreDump.key = COREDUMP_KEY + 1
  /\ coreDump.cause # 0
  /\ coreDump.r0 # 0
  /\ ~report.present

\* C3: with no debugger attached, the terminal action of the handler is a
\* reset, for every fault.
C3_ResetWithoutDebugger ==
  (~debugger /\ decision # "None") => decision = "Reset"

C5_PriorityCategory ==
  (HandlerRan /\ variant = "NEW_HANDLER_MEMFAULT")
    => /\ coreDump.cause = Classify(scb.CFSR)
       /\ (scb.CFSR % 128 # 0 /\ (scb.CFSR \div 256) % 128 # 0)
            => (coreDump.cause = ProtectionFault /\ coreDump.cause # AccessFault)

\* C6: a fault address register is read only when its valid bit (CFSR
\* bit 7 for MMAR, bit 15 for BFAR) is set; with the bit clear the decoder
\* holds no address for it.
C6_AddressOnlyWhenValid ==
  (HandlerRan /\ variant = "NEW_HANLDER_1")
    => /\ Bit(scb.CFSR, 7) = 0 => ("MMAR" \notin regReads /\ hf._MMAR = Unset)
       /\ Bit(scb.CFSR, 15) = 0 => ("BFAR" \notin regReads /\ hf._BFAR = Unset)

\* C7: a call of the unaligned-access section traps exactly when the trap
\* bit is set and the call is unaligned_access_bad(1): with the bit set
\* unaligned_access_ok() and unaligned_access_bad(0) complete, and with the
\* bit clear unaligned_access_bad(1) completes.
C7_TrapsExactlyWhenUnaligned ==
  [][ (mode = "Thread" /\ pc \in {145, 146, 148, 149, 150}
         /\ mode' \in {"Thread", "Trapped"} /\ (pc' # pc \/ mode' # mode))
      => (mode' = "Trapped" <=> (unalignTrp /\ pc \in {145, 150})) ]_vars

\* C8: after a fault is handled the region holds the key, the decoder's
\* category for this fault, r0-r3 and the return address of this fault's
\* frame and the stack pointer at fault time: no field keeps an older value.
C8_RecordOfThisFault ==
  (HandlerRan /\ variant = "NEW_HANDLER_MEMFAULT")
    => /\ coreDump.key = COREDUMP_KEY
       /\ coreDump.cause = FaultRecord.cause
       /\ coreDump.r0 = FaultFrame.r0
       /\ coreDump.r1 = FaultFrame.r1
       /\ coreDump.r2 = FaultFrame.r2
       /\ coreDump.r3 = FaultFrame.r3
       /\ coreDump.returnAddress = FaultFrame.return_address
       /\ coreDump.stackPointer = FaultRecord.stackPointer

\* C9: a fault that has reached its terminal action went through Trapped,
\* Captured, Classified, Persisted in that order, wrote the record exactly
\* once, and its terminal action is Halted or Reset.
C9_OnePassToHaltOrReset ==
  (variant = "NEW_HANDLER_MEMFAULT" /\ decision # "None")
    => /\ writes = 1
       /\ decision \in {"Halt", "Reset"}
       /\ SubSeq(stages, 1, 4) = <<"Trapped", "Captured", "Classified", "Persisted">>
       /\ Len(stages) = 5

\* C10: the pointer handed to the C handler is the main stack pointer when
\* bit 2 of the saved lr is clear and the process stack pointer otherwise,
\* which is where the hardware stacked the frame; the two variants select
\* the same stack for the same lr.
C10_FramePointerSelection ==
  (mode \in {"Captured", "AtBkpt", "Halted", "Lockup"})
    => /\ framePtr = (IF Bit(excLr, 2) = 0 THEN msp ELSE psp)
       /\ framePtr = frameAddr
       /\ HardFault_Handler_1(excLr, msp, psp) = HARDFAULT_HANDLING_ASM(excLr, msp, psp)

\* C10 witness: a fault taken on the process stack, the handler handed psp.
C10_Witness ==
  /\ mode = "Captured"
  /\ Bit(excLr, 2) = 1
  /\ framePtr = psp
  /\ framePtr # msp
  /\ stackAt[framePtr] = Frame(1)

====
